---- MODULE Spec2Model ----
(***************************************************************************)
(* A model of Week3/GCN-Graph/GCN.py: the sub-graph sampler, the split     *)
(* generator, the GCN module (reset_parameters, train/eval mode), the      *)
(* helper functions train() and test(), and the training loop with its    *)
(* best-model snapshot.                                                    *)
(*                                                                         *)
(* Four specifications share the variables:                                *)
(*   Spec       the training loop of lines 196-215                         *)
(*   SpecAPI    calls of train(), test() and reset_parameters() in any     *)
(*              order on one model                                         *)
(*   SpecSplit  the split generator of lines 72-75                         *)
(*   SpecSub    the sub-graph sampler of lines 51-64                       *)
(*                                                                         *)
(* Abstractions.  A layer's weights are abstracted to the number of        *)
(* optimizer updates applied to them since they were last initialised      *)
(* (0 = freshly initialised).  What a parameter vector computes in         *)
(* evaluation mode is abstracted to `perf`: the number of correctly        *)
(* predicted nodes of each split; an accuracy is that count over the       *)
(* split's size, so comparing counts is comparing accuracies.              *)
(***************************************************************************)
EXTENDS Integers, Sequences, FiniteSets, TLC

VARIABLES
    pc,             \* position in the script / harness
    epochs,         \* args["epochs"]
    epoch,          \* the loop variable of line 199 (0: not yet bound)
    heap,           \* object store: reference -> GCN module object
    best_model,     \* line 196/210: None or a reference
    best_valid_acc, \* line 197/209
    result,         \* line 207: train_acc, valid_acc, test_acc
    valid_log,      \* history: the validation accuracy of epochs 1..n
    fwd,            \* history: the last forward pass (purpose, mode)
    updates,        \* history: number of optimizer.step() calls
    evals,          \* history: number of test() calls
    call,           \* SpecAPI: the last call and its outcome
    csv_file,       \* the file ogbn-products_node.csv (absent or its rows)
    sub_nodes,      \* line 54
    split_sizes,    \* line 72
    indices,        \* line 73-74
    split_idx,      \* line 75
    data,           \* the full graph (lines 38, 51)
    sub_graph       \* lines 55-64

loopVars == <<epochs, epoch, best_model, best_valid_acc, valid_log>>
modelVars == <<heap, result, fwd, updates, evals>>
apiVars == <<call, csv_file>>
splitVars == <<split_sizes, indices, split_idx>>
subVars == <<data, sub_graph>>
vars == <<pc, loopVars, modelVars, apiVars, sub_nodes, splitVars, subVars>>

----------------------------------------------------------------------------
(* Bounds *)

MaxEpochs == 3
SplitSize == 2
MaxCalls == 3

(* Program constants *)

NumLayers == 4
None == 0
model == 1

----------------------------------------------------------------------------
(* The GCN module *)

Perf == [train : 0..SplitSize, valid : 0..SplitSize, test : 0..SplitSize]

\* GCN.__init__: four hidden convolutions, the output convolution, four
\* batch norms, all freshly initialised; nn.Module starts in training mode.
NewGCN(p) ==
    [gcnlayers |-> [i \in 1..NumLayers |-> 0],
     last_gcn  |-> 0,
     bns       |-> [i \in 1..NumLayers |-> 0],
     training  |-> TRUE,
     perf      |-> p]

\* GCN.reset_parameters: loops over self.gcnlayers and self.bns only.
ResetParameters(obj, p) ==
    [obj EXCEPT !.gcnlayers = [i \in 1..NumLayers |-> 0],
                !.bns = [i \in 1..NumLayers |-> 0],
                !.perf = p]

KeepMode(h, ref) == h

\* model.train()
ModelTrain(h, ref) == [h EXCEPT ![ref].training = TRUE]

\* model.eval()
ModelEval(h, ref) == [h EXCEPT ![ref].training = FALSE]

\* GCN.forward: dropout is applied with training=self.training.
Forward(h, ref, purpose) == [purpose |-> purpose, training |-> h[ref].training]

\* optimizer.step(): Adam over model.parameters(), i.e. every layer.
OptimizerStep(h, ref, p) ==
    [h EXCEPT ![ref] =
        [@ EXCEPT !.gcnlayers = [i \in 1..NumLayers |-> @[i] + 1],
                  !.last_gcn = @ + 1,
                  !.bns = [i \in 1..NumLayers |-> @[i] + 1],
                  !.perf = p]]

FreshRef(h) == CHOOSE r \in 1..(Cardinality(DOMAIN h) + 1) : r \notin DOMAIN h

ShallowCopy(h, ref) == [heap |-> h, ref |-> ref]

\* copy.deepcopy(model): a new object with the same contents.
DeepCopy(h, ref) ==
    LET r == FreshRef(h) IN [heap |-> h @@ (r :> h[ref]), ref |-> r]

\* Objects no longer referenced are freed.
Collect(h, live) == [r \in (DOMAIN h) \cap live |-> h[r]]

----------------------------------------------------------------------------
(* test() *)

\* Names bound at module level when test() runs (lines 10-31, 189).
BoundNames ==
    {"torch", "os", "PygNodePropPredDataset", "Evaluator", "F", "GCNConv",
     "T", "DataLoader", "np", "SparseTensor", "nn", "copy"}

NoResult == [train_acc |-> 0, valid_acc |-> 0, test_acc |-> 0]

\* test(model, data, split_idx, evaluator, save_model_results)
TestFn(h, ref, save, file, nodes) ==
    LET h1 == ModelEval(h, ref)
        f == Forward(h1, ref, "eval")
        accs == [train_acc |-> h1[ref].perf.train,
                 valid_acc |-> h1[ref].perf.valid,
                 test_acc |-> h1[ref].perf.test]
    IN  IF save /\ "pd" \notin BoundNames
        THEN [heap |-> h1, fwd |-> f, outcome |-> "NameError",
              ret |-> NoResult, file |-> file]
        ELSE [heap |-> h1, fwd |-> f, outcome |-> "returned", ret |-> accs,
              file |-> IF save THEN [rows |-> nodes] ELSE file]

----------------------------------------------------------------------------
(* The training loop, lines 196-215 *)

NoForward == [purpose |-> "none", training |-> TRUE]
NoCall == [fn |-> "none", save |-> FALSE, outcome |-> "none", n |-> 0]
Absent == [rows |-> -1]

DataIdle ==
    /\ split_sizes = <<>>
    /\ indices = <<>>
    /\ split_idx = <<>>
    /\ data = [x |-> <<>>, y |-> <<>>, edge_index |-> <<>>,
               adj_t |-> [sizes |-> <<0, 0>>, entries |-> {}]]
    /\ sub_graph = [x |-> <<>>, y |-> <<>>, edge_index |-> <<>>,
                    adj_t |-> [sizes |-> <<0, 0>>, entries |-> {}]]

\* lines 184-197: nothing trained, evaluated, called or saved yet
ScriptStart ==
    /\ result = NoResult
    /\ fwd = NoForward
    /\ updates = 0
    /\ evals = 0
    /\ best_model = None
    /\ best_valid_acc = 0
    /\ valid_log = <<>>
    /\ epoch = 0
    /\ call = NoCall
    /\ csv_file = Absent

\* model = GCN(...); model.reset_parameters(), on a graph of three splits
ModelInit ==
    /\ \E p \in Perf : heap = (model :> NewGCN(p))
    /\ ScriptStart
    /\ sub_nodes = 3 * SplitSize

\* The data preparation of lines 51-75 runs before any model exists.
ModelIdle ==
    /\ heap = << >>
    /\ ScriptStart
    /\ epochs = 0

Init ==
    /\ pc = "for"
    /\ epochs \in 0..MaxEpochs
    /\ ModelInit
    /\ DataIdle

RangeShort(e, n) == e + 1 < n

\* range(1, 1 + epochs) has a next value after e
RangeHasNext(e, n) == e < n

For ==
    /\ pc = "for"
    /\ IF RangeHasNext(epoch, epochs)
       THEN epoch' = epoch + 1 /\ pc' = "train_mode"
       ELSE epoch' = epoch /\ pc' = "done"
    /\ UNCHANGED <<epochs, best_model, best_valid_acc, valid_log, modelVars,
                   apiVars, sub_nodes, splitVars, subVars>>

TrainMode ==
    /\ pc = "train_mode"
    /\ heap' = ModelTrain(heap, model)
    /\ pc' = "forward"
    /\ UNCHANGED <<loopVars, result, fwd, updates, evals, apiVars, sub_nodes,
                   splitVars, subVars>>

ForwardLoss ==
    /\ pc = "forward"
    /\ fwd' = Forward(heap, model, "loss")
    /\ pc' = "step"
    /\ UNCHANGED <<loopVars, heap, result, updates, evals, apiVars, sub_nodes,
                   splitVars, subVars>>

Step ==
    /\ pc = "step"
    /\ \E p \in Perf : heap' = OptimizerStep(heap, model, p)
    /\ updates' = updates + 1
    /\ pc' = "test"
    /\ UNCHANGED <<loopVars, result, fwd, evals, apiVars, sub_nodes,
                   splitVars, subVars>>

Test ==
    /\ pc = "test"
    /\ LET t == TestFn(heap, model, FALSE, csv_file, sub_nodes) IN
        /\ heap' = t.heap
        /\ fwd' = t.fwd
        /\ result' = t.ret
        /\ csv_file' = t.file
    /\ evals' = evals + 1
    /\ pc' = "checkpoint"
    /\ UNCHANGED <<loopVars, updates, call, sub_nodes, splitVars, subVars>>

ImprovesOrTies(v, b) == v >= b

\* line 208
Improves(v, b) == v > b

Checkpoint ==
    /\ pc = "checkpoint"
    /\ IF Improves(result.valid_acc, best_valid_acc)
       THEN LET c == DeepCopy(heap, model) IN
            /\ best_valid_acc' = result.valid_acc
            /\ best_model' = c.ref
            /\ heap' = Collect(c.heap, {model, c.ref})
       ELSE UNCHANGED <<best_valid_acc, best_model, heap>>
    /\ valid_log' = Append(valid_log, result.valid_acc)
    /\ pc' = "for"
    /\ UNCHANGED <<epochs, epoch, result, fwd, updates, evals, apiVars,
                   sub_nodes, splitVars, subVars>>

Next == For \/ TrainMode \/ ForwardLoss \/ Step \/ Test \/ Checkpoint

Spec == Init /\ [][Next]_vars

----------------------------------------------------------------------------
(* Calls of train(), test() and reset_parameters() in any order *)

InitAPI ==
    /\ pc = "idle"
    /\ epochs = 0
    /\ ModelInit
    /\ DataIdle

\* train(model, data, train_idx, optimizer, loss_fn)
TrainFn(h, ref, p) ==
    LET h1 == ModelTrain(h, ref)
    IN  [heap |-> OptimizerStep(h1, ref, p), fwd |-> Forward(h1, ref, "loss")]

CallTrain ==
    /\ pc = "idle"
    /\ call.n < MaxCalls
    /\ \E p \in Perf :
        LET t == TrainFn(heap, model, p) IN
        /\ heap' = t.heap
        /\ fwd' = t.fwd
    /\ updates' = updates + 1
    /\ call' = [fn |-> "train", save |-> FALSE, outcome |-> "returned",
                n |-> call.n + 1]
    /\ UNCHANGED <<pc, loopVars, result, evals, csv_file, sub_nodes,
                   splitVars, subVars>>

CallTest ==
    /\ pc = "idle"
    /\ call.n < MaxCalls
    /\ \E save \in BOOLEAN :
        LET t == TestFn(heap, model, save, csv_file, sub_nodes) IN
        /\ heap' = t.heap
        /\ fwd' = t.fwd
        /\ result' = t.ret
        /\ csv_file' = t.file
        /\ call' = [fn |-> "test", save |-> save, outcome |-> t.outcome,
                    n |-> call.n + 1]
        /\ pc' = IF t.outcome = "returned" THEN "idle" ELSE "error"
    /\ evals' = evals + 1
    /\ UNCHANGED <<loopVars, updates, sub_nodes, splitVars, subVars>>

CallReset ==
    /\ pc = "idle"
    /\ call.n < MaxCalls
    /\ \E p \in Perf : heap' = [heap EXCEPT ![model] = ResetParameters(@, p)]
    /\ call' = [fn |-> "reset_parameters", save |-> FALSE,
                outcome |-> "returned", n |-> call.n + 1]
    /\ UNCHANGED <<pc, loopVars, result, fwd, updates, evals, csv_file,
                   sub_nodes, splitVars, subVars>>

NextAPI == CallTrain \/ CallTest \/ CallReset

SpecAPI == InitAPI /\ [][NextAPI]_vars

----------------------------------------------------------------------------
(* The split generator, lines 72-75 *)

MaxSubNodes == 20

SumSeq(s) == IF Len(s) = 0 THEN 0 ELSE s[1] + s[2] + s[3]

Range(s) == {s[i] : i \in 1..Len(s)}

\* [int(sub_nodes*0.8), int(sub_nodes*0.05), int(sub_nodes*0.15)].  The
\* double nearest to 0.8 and to 0.05 lies above it and the one nearest to
\* 0.15 lies 3.7e-17 (relative) below it, less than half a unit in the last
\* place, so each float product truncates to the exact floor.
SplitSizes(k) == <<(k * 80) \div 100, (k * 5) \div 100, (k * 15) \div 100>>

\* torch.arange(sub_nodes)
Arange(k) == [i \in 1..k |-> i - 1]

\* One outcome of np.random.shuffle: the permutations are drawn from the
\* rotations of the sequence and their reversals.
Shuffled(s, r, rev) ==
    LET n == Len(s)
        rot == [i \in 1..n |-> s[((i - 1 + r) % n) + 1]]
    IN  IF rev THEN [i \in 1..n |-> rot[n + 1 - i]] ELSE rot

\* torch.split(indices, split_sizes, dim=0): split_with_sizes raises a
\* RuntimeError unless the sizes sum exactly to the tensor's length.
TorchSplit(s, sizes) ==
    IF SumSeq(sizes) # Len(s)
    THEN [ok |-> FALSE, parts |-> <<>>]
    ELSE [ok |-> TRUE,
          parts |-> <<SubSeq(s, 1, sizes[1]),
                      SubSeq(s, sizes[1] + 1, sizes[1] + sizes[2]),
                      SubSeq(s, sizes[1] + sizes[2] + 1,
                             sizes[1] + sizes[2] + sizes[3])>>]

InitSplit ==
    /\ pc = "sizes"
    /\ sub_nodes \in 0..MaxSubNodes
    /\ ModelIdle
    /\ DataIdle

ComputeSizes ==
    /\ pc = "sizes"
    /\ split_sizes' = SplitSizes(sub_nodes)
    /\ pc' = "arange"
    /\ UNCHANGED <<loopVars, modelVars, apiVars, sub_nodes, indices,
                   split_idx, subVars>>

MakeIndices ==
    /\ pc = "arange"
    /\ indices' = Arange(sub_nodes)
    /\ pc' = "shuffle"
    /\ UNCHANGED <<loopVars, modelVars, apiVars, sub_nodes, split_sizes,
                   split_idx, subVars>>

Shuffle ==
    /\ pc = "shuffle"
    /\ \E r \in 0..(IF Len(indices) = 0 THEN 0 ELSE Len(indices) - 1),
          rev \in BOOLEAN :
        indices' = Shuffled(indices, r, rev)
    /\ pc' = "split"
    /\ UNCHANGED <<loopVars, modelVars, apiVars, sub_nodes, split_sizes,
                   split_idx, subVars>>

Split ==
    /\ pc = "split"
    /\ LET t == TorchSplit(indices, split_sizes) IN
        IF t.ok
        THEN /\ split_idx' = [train |-> t.parts[1], valid |-> t.parts[2],
                              test |-> t.parts[3]]
             /\ pc' = "done"
        ELSE /\ split_idx' = split_idx
             /\ pc' = "RuntimeError"
    /\ UNCHANGED <<loopVars, modelVars, apiVars, sub_nodes, split_sizes,
                   indices, subVars>>

NextSplit == ComputeSizes \/ MakeIndices \/ Shuffle \/ Split

SpecSplit == InitSplit /\ [][NextSplit]_vars

----------------------------------------------------------------------------
(* The sub-graph sampler, lines 51-64 *)

FullNodes == 3

MaxOf(S) == CHOOSE m \in S : \A n \in S : n <= m

\* The (row, col) pairs of a sparse matrix in storage order: by row, then
\* by column.
RECURSIVE StorageOrder(_)
StorageOrder(E) ==
    IF E = {} THEN <<>>
    ELSE LET first == CHOOSE e \in E : \A f \in E :
                          \/ e[1] < f[1]
                          \/ (e[1] = f[1] /\ e[2] <= f[2])
         IN  <<first>> \o StorageOrder(E \ {first})

\* torch.stack([adj_t.storage._row, adj_t.storage._col])
EdgeIndexOf(adj) == StorageOrder(adj.entries)

InSubset(e, k) == e[1] < k /\ e[2] < k

\* data.subgraph(torch.arange(k)): node attributes are sliced to the first
\* k rows, edge_index keeps the edges with both endpoints in the subset, in
\* order; arange relabels every kept node to itself.
Subgraph(d, k) ==
    [x |-> SubSeq(d.x, 1, k),
     y |-> SubSeq(d.y, 1, k),
     edge_index |-> SelectSeq(d.edge_index, LAMBDA e : InSubset(e, k)),
     adj_t |-> d.adj_t]

\* SparseTensor(row, col, sparse_sizes=None, is_sorted=True, trust_data=True):
\* with no sizes given, the shape is inferred as (max(row)+1, max(col)+1).
SparseTensorOf(edges) ==
    LET rows == {edges[i][1] : i \in 1..Len(edges)}
        cols == {edges[i][2] : i \in 1..Len(edges)}
    IN  [sizes |-> <<IF rows = {} THEN 0 ELSE MaxOf(rows) + 1,
                     IF cols = {} THEN 0 ELSE MaxOf(cols) + 1>>,
         entries |-> Range(edges)]

\* An undirected graph: a symmetric adjacency, self-loops allowed.
UndirectedGraphs(n) ==
    {U \cup {<<e[2], e[1]>> : e \in U} :
        U \in SUBSET {e \in (0..(n - 1)) \X (0..(n - 1)) : e[1] <= e[2]}}

InitSub ==
    /\ pc = "edge_index"
    /\ sub_nodes \in 0..FullNodes
    /\ ModelIdle
    /\ split_sizes = <<>>
    /\ indices = <<>>
    /\ split_idx = <<>>
    /\ \E E \in UndirectedGraphs(FullNodes) :
        data = [x |-> Arange(FullNodes), y |-> Arange(FullNodes),
                edge_index |-> <<>>,
                adj_t |-> [sizes |-> <<FullNodes, FullNodes>>, entries |-> E]]
    /\ sub_graph = [x |-> <<>>, y |-> <<>>, edge_index |-> <<>>,
                    adj_t |-> [sizes |-> <<0, 0>>, entries |-> {}]]

MakeEdgeIndex ==
    /\ pc = "edge_index"
    /\ data' = [data EXCEPT !.edge_index = EdgeIndexOf(data.adj_t)]
    /\ pc' = "subgraph"
    /\ UNCHANGED <<loopVars, modelVars, apiVars, sub_nodes, splitVars,
                   sub_graph>>

TakeSubgraph ==
    /\ pc = "subgraph"
    /\ sub_graph' = Subgraph(data, sub_nodes)
    /\ pc' = "adj_t"
    /\ UNCHANGED <<loopVars, modelVars, apiVars, sub_nodes, splitVars, data>>

RebuildAdj ==
    /\ pc = "adj_t"
    /\ sub_graph' = [sub_graph EXCEPT
                        !.adj_t = SparseTensorOf(sub_graph.edge_index)]
    /\ pc' = "done"
    /\ UNCHANGED <<loopVars, modelVars, apiVars, sub_nodes, splitVars, data>>

NextSub == MakeEdgeIndex \/ TakeSubgraph \/ RebuildAdj

SpecSub == InitSub /\ [][NextSub]_vars

----------------------------------------------------------------------------
(* Properties of the training loop (Spec) *)

MaxOfLog(log) == IF log = <<>> THEN 0 ELSE MaxOf(Range(log) \cup {0})

EarliestEpoch(v) ==
    CHOOSE e \in 1..Len(valid_log) :
        /\ valid_log[e] = v
        /\ \A d \in 1..(e - 1) : valid_log[d] # v

AllLayers(obj, n) ==
    /\ \A i \in 1..NumLayers : obj.gcnlayers[i] = n /\ obj.bns[i] = n
    /\ obj.last_gcn = n

CheckpointKeeps ==
    pc = "checkpoint" =>
        IF result.valid_acc > best_valid_acc
        THEN /\ best_valid_acc' = result.valid_acc
             /\ best_model' # None
             /\ best_model' # model
             /\ heap'[best_model'] = heap[model]
             /\ heap'[model] = heap[model]
        ELSE /\ best_valid_acc' = best_valid_acc
             /\ best_model' = best_model
             /\ heap' = heap

\* C1: at the checkpoint decision of every epoch, a validation accuracy
\* strictly above the best seen replaces the best accuracy by it and the
\* snapshot by a deep copy of the current model; an equal or lower one
\* leaves both unchanged.  So best_valid_acc never decreases and always
\* equals the maximum of 0 and the validation accuracies of the epochs run.
C1_BestTracksMax ==
    /\ [][CheckpointKeeps]_vars
    /\ [][best_valid_acc' >= best_valid_acc]_vars
    /\ [](best_valid_acc = MaxOfLog(valid_log))

\* An improvement, then a tie, then a drop have all been through the
\* checkpoint decision.
C1_Witness ==
    /\ valid_log = <<1, 1, 0>>
    /\ best_valid_acc = 1
    /\ best_model # None

\* C2: no early stopping: whatever the validation accuracies, the loop ends
\* only after exactly `epochs` iterations, epoch running 1..epochs, each
\* with one parameter update followed by one evaluation; until then a next
\* step is always enabled.
C2_FullBudget ==
    /\ epoch \in 0..epochs
    /\ evals <= updates
    /\ updates <= evals + 1
    /\ pc = "done" =>
        /\ epoch = epochs
        /\ updates = epochs
        /\ evals = epochs
        /\ Len(valid_log) = epochs
    /\ pc # "done" => ENABLED Next

\* A run whose validation accuracy degrades every epoch reaches the end.
C2_Witness ==
    /\ pc = "done"
    /\ epochs = 3
    /\ valid_log = <<2, 1, 0>>

\* C6 (as claimed): a run of at least one epoch ends with a best-model
\* snapshot whose accuracy on every split lies in [0, 1].
C6_SnapshotExists ==
    (pc = "done" /\ epochs >= 1) =>
        /\ best_model # None
        /\ best_model \in DOMAIN heap
        /\ \A s \in {"train", "valid", "test"} :
            heap[best_model].perf[s] \in 0..SplitSize

\* C9: every forward pass for the loss runs in training mode and every
\* forward pass of test() in evaluation mode, although test() leaves the
\* model in evaluation mode at the end of each epoch.
C9_ModeAlternates ==
    /\ fwd.purpose = "loss" => fwd.training
    /\ fwd.purpose = "eval" => ~fwd.training
    /\ (pc \in {"step", "test"} /\ epoch >= 1) => fwd.purpose = "loss"
    /\ (pc \in {"checkpoint"}) => fwd.purpose = "eval"
    /\ (pc = "for" /\ epoch >= 1) => ~heap[model].training
    /\ (pc = "train_mode" /\ epoch >= 2) => ~heap[model].training

\* The second epoch's loss forward pass has run, after test() left the
\* model in evaluation mode.
C9_Witness ==
    /\ epoch = 2
    /\ pc = "step"
    /\ fwd.purpose = "loss"
    /\ fwd.training

\* C10: best_model is None exactly when best_valid_acc is 0 (no epoch had a
\* validation accuracy above 0); otherwise it holds the parameters the
\* model had right after the update of the earliest epoch whose validation
\* accuracy equals best_valid_acc, whatever later updates did, so that it
\* evaluates to best_valid_acc on the validation split.
C10_SnapshotInvariant ==
    /\ best_model = None <=> best_valid_acc = 0
    /\ best_model = None <=> \A e \in 1..Len(valid_log) : valid_log[e] = 0
    /\ best_model # None =>
        /\ best_model \in DOMAIN heap
        /\ AllLayers(heap[best_model], EarliestEpoch(best_valid_acc))
        /\ heap[best_model].perf.valid = best_valid_acc

\* The best accuracy was met in epoch 1 and again in epoch 3, and two
\* further updates have been applied to the model since the snapshot.
C10_Witness ==
    /\ valid_log = <<1, 0, 1>>
    /\ best_model # None
    /\ AllLayers(heap[best_model], 1)
    /\ AllLayers(heap[model], 3)

----------------------------------------------------------------------------
(* Properties of reset_parameters() and test() (SpecAPI) *)

\* C5 (as claimed): reset_parameters() reinitialises every convolution
\* layer, the output convolution last_gcn included, and every batch norm.
C5_ResetsEveryLayer ==
    call.fn = "reset_parameters" => AllLayers(heap[model], 0)

\* C8 (as claimed): test() with save_model_results=True writes the csv file
\* with one row per node and returns the three accuracies.
C8_SaveThenReturn ==
    (call.fn = "test" /\ call.save) =>
        /\ call.outcome = "returned"
        /\ csv_file = [rows |-> sub_nodes]
        /\ result = [train_acc |-> heap[model].perf.train,
                     valid_acc |-> heap[model].perf.valid,
                     test_acc |-> heap[model].perf.test]

----------------------------------------------------------------------------
(* Properties of the split generator (SpecSplit) *)

Finished == pc \in {"done", "RuntimeError"}

\* C3 (as claimed): for every node count the generator produces three
\* pairwise disjoint index sets within [0, K) of sizes floor(0.80 K),
\* floor(0.05 K) and floor(0.15 K), summing to at most K.
C3_SplitsProduced ==
    Finished =>
        /\ pc = "done"
        /\ Len(split_idx.train) = (sub_nodes * 80) \div 100
        /\ Len(split_idx.valid) = (sub_nodes * 5) \div 100
        /\ Len(split_idx.test) = (sub_nodes * 15) \div 100
        /\ Len(split_idx.train) + Len(split_idx.valid) + Len(split_idx.test)
              <= sub_nodes
        /\ Range(split_idx.train) \cap Range(split_idx.valid) = {}
        /\ Range(split_idx.train) \cap Range(split_idx.test) = {}
        /\ Range(split_idx.valid) \cap Range(split_idx.test) = {}
        /\ Cardinality(Range(split_idx.train)) = Len(split_idx.train)
        /\ Cardinality(Range(split_idx.valid)) = Len(split_idx.valid)
        /\ Cardinality(Range(split_idx.test)) = Len(split_idx.test)
        /\ Range(split_idx.train) \cup Range(split_idx.valid)
              \cup Range(split_idx.test) \subseteq 0..(sub_nodes - 1)

\* C4 (as claimed): when the truncated sizes sum to fewer than K the
\* generator still succeeds, raising nothing and leaving the surplus
\* indices in no split.
C4_SurplusDropped ==
    (Finished /\ SumSeq(split_sizes) < sub_nodes) =>
        /\ pc = "done"
        /\ Len(split_idx.train) = split_sizes[1]
        /\ Len(split_idx.valid) = split_sizes[2]
        /\ Len(split_idx.test) = split_sizes[3]
        /\ Range(indices) \ (Range(split_idx.train) \cup Range(split_idx.valid)
              \cup Range(split_idx.test)) # {}

----------------------------------------------------------------------------
(* Properties of the sub-graph sampler (SpecSub) *)

\* C7 (as claimed): the sampler yields exactly K feature rows, K labels and
\* a K x K adjacency holding exactly the edges of the full graph with both
\* endpoints below K.
C7_SubgraphShape ==
    pc = "done" =>
        /\ Len(sub_graph.x) = sub_nodes
        /\ Len(sub_graph.y) = sub_nodes
        /\ sub_graph.adj_t.sizes = <<sub_nodes, sub_nodes>>
        /\ sub_graph.adj_t.entries =
              {e \in data.adj_t.entries : e[1] < sub_nodes /\ e[2] < sub_nodes}

====
